---- MODULE Spec2Model ----
(***************************************************************************)
(* Course-management backend: the enrollment flow of the two server        *)
(* variants kept in src/server.js.                                         *)
(*                                                                         *)
(*   variant = "auth"   server.js 1-462 over the schema of                 *)
(*                      unnamed/part_000 1-112 (users, courses.enrolled,   *)
(*                      courses.capacity, JWT middleware, a transaction    *)
(*                      around the insert and the counter update).         *)
(*   variant = "plain"  server.js 463-762 over the schema of database.js   *)
(*                      (students, courses.current_enrollment,             *)
(*                      courses.max_capacity, no authentication, every     *)
(*                      statement auto-committed, PUT .../status).         *)
(*                                                                         *)
(* A request is a process: it runs from one await to the next in one step, *)
(* and each step executes one SQL statement against the database.          *)
(* PostgreSQL runs at READ COMMITTED: a statement sees the rows committed   *)
(* when it starts, a row lock is held until the transaction that took it   *)
(* ends, and a statement sent through pool.query is a transaction of its   *)
(* own.                                                                    *)
(*                                                                         *)
(* Specifications: Spec runs the requests concurrently, SpecSeq one after  *)
(* the other; SpecRuns runs initializeDatabase of the three modules, one   *)
(* run after the other, by a call of the exported function or a restart of *)
(* the process, on several stored databases; SpecBoot is the start of a    *)
(* process (require('./database'),                                         *)
(* app.listen) with each of the three database modules; SpecAccess is the  *)
(* auth server used by a caller who holds no admin credential.             *)
(***************************************************************************)
EXTENDS Integers, FiniteSets, Sequences, TLC

\* Number of requests of one run; each request slot serves one request.
MaxReq == 2
\* Largest course capacity of the modelled courses.
MaxCap == 2

Reqs == 1..MaxReq

VARIABLES
    variant,      \* which of the two servers is deployed
    users,        \* auth: table users, id -> role
    emails,       \* auth: table users, id -> email (the column is UNIQUE)
    students,     \* plain: table students, the set of student_id
    courses,      \* table courses: key -> row (capacity and counter)
    enrollments,  \* table enrollments: the committed rows
    seq,          \* the SERIAL sequences of enrollments and courses
    req,          \* the requests: position, inputs, locals, response
    pre,          \* the tables when the latest request started (sequential runs);
                  \* concurrent runs keep the tables of the initial state
    boot          \* the process: database module loaded, position of startup and
                  \* of initializeDatabase, which tables exist

vars == <<variant, users, emails, students, courses, enrollments, seq, req, pre, boot>>

db == <<users, students, courses, enrollments, seq>>

----------------------------------------------------------------------------
(* Inputs: one representative of each class of request the handlers tell   *)
(* apart.                                                                  *)

\* plain: (student_id, course_code) of the request body; "" is a missing
\* field, "sx" no row of students, "cx" no row of courses
EnrollArgs ==
    ({"s1", "s2"} \X {"c1", "c2"})
    \cup {<<"", "c1">>, <<"s1", "">>, <<"sx", "c1">>, <<"s1", "cx">>, <<"sx", "cx">>}

\* the width of the column status, VARCHAR(20)
StatusMaxLen == 20

\* plain: (:id, status) of PUT /api/enrollments/:id/status; "" is a missing
\* field, the last status is longer than the column is wide
SetStatusArgs ==
    ({1, 2} \X {"Active", "Dropped"})
    \cup {<<1, "">>, <<1, "Completed">>, <<1, "WithdrawnAfterDeadline">>}

\* n spaces
RECURSIVE Spaces(_)
Spaces(n) == IF n = 0 THEN "" ELSE " " \o Spaces(n - 1)

\* the character NUL (code 0), written here as an escape
Nul == "\\0"

\* what stands before and after a NUL in the statuses sent
NulParts == {"", "a"}

\* the statuses without NUL and without trailing spaces that are sent:
\* shorter than the column, exactly as wide (20 characters), longer
StatusWords == {"Active", "Dropped", "Withdrawn by request", "WithdrawnAfterDeadline"}

\* how many spaces follow a word
StatusPads == {0, 1, 14}

\* plain: the statuses of a client that sends arbitrary strings: words,
\* words followed by spaces, a string with a NUL, a space alone, none
WideStatusArgs ==
    ({1} \X ({w \o Spaces(k) : w \in StatusWords, k \in StatusPads}
             \cup {"a" \o Nul, " ", ""}))
    \cup {<<2, "Active">>}

\* the strings sent that contain a NUL
NulStrings == {x \o Nul \o y : x, y \in NulParts}

\* PostgreSQL refuses a text value that contains the character of code 0
ContainsNul(s) == s \in NulStrings

\* assignment of the string s to a column VARCHAR(n): the set of the value
\* stored, empty when the assignment is refused.  A string of at most n
\* characters is stored as it is; a longer one whose characters after the
\* n-th are all spaces is stored cut to n characters; any other longer one
\* is refused (value too long), and so is a string with a NUL
VarcharAssign(n, s) ==
    IF ContainsNul(s) THEN {}
    ELSE IF Len(s) <= n THEN {s}
    ELSE {w \o Spaces(n - Len(w)) :
            w \in {v \in StatusWords : Len(v) <= n /\ v \o Spaces(Len(s) - Len(v)) = s}}

\* auth: the Authorization header. present: a token was sent; valid: jwt.verify
\* accepts it; id: decoded.id (users 1 and 2 exist, user 3 does not)
NoToken == [present |-> FALSE, valid |-> FALSE, id |-> 0]

BadToken == [present |-> TRUE, valid |-> FALSE, id |-> 0]

TokenOf(i) == [present |-> TRUE, valid |-> TRUE, id |-> i]

\* auth: (token, courseId) of POST /api/enrollments; 0 is a missing field,
\* 9 no row of courses
AuthEnrollArgs ==
    {<<TokenOf(1), 1>>, <<TokenOf(2), 1>>, <<TokenOf(1), 2>>}
    \cup {<<NoToken, 1>>, <<TokenOf(3), 1>>, <<TokenOf(1), 0>>, <<TokenOf(1), 9>>}

\* auth: (token, all fields present, capacity) of POST /api/courses
CreateCourseArgs ==
    {<<NoToken, TRUE, 1>>, <<BadToken, TRUE, 1>>, <<TokenOf(3), TRUE, 1>>,
     <<TokenOf(2), TRUE, 1>>, <<TokenOf(1), TRUE, 1>>, <<TokenOf(1), FALSE, 0>>}

----------------------------------------------------------------------------
(* Requests *)

NoRows == {}

IdleReq ==
    [pc |-> "idle", op |-> "none",
     \* inputs
     student_id |-> "", course_code |-> "", id |-> 0, status |-> "",
     token |-> NoToken,
     courseId |-> 0, bodyOk |-> FALSE, capacity |-> 0,
     \* locals of the handler: the rows a SELECT returned
     user |-> NoRows, course |-> NoRows, enrollment |-> NoRows, result |-> NoRows,
     \* the transaction of the pooled client: uncommitted insert, uncommitted
     \* counter update (the keys of the course rows it locked)
     began |-> FALSE, ins |-> NoRows, upd |-> NoRows,
     \* the response and what the handler did on the way
     \* (err: the error a query threw, at: the statement that threw it)
     code |-> 0, message |-> "", err |-> "none", at |-> "none",
     inserts |-> 0, rollbacks |-> 0, releases |-> 0, created |-> 0]

\* a query of the request rejects with an error of the given kind
Throw(q, kind) == [q EXCEPT !.err = kind, !.at = q.pc]

\* res.status(code).json({message}) and return
Respond(q, code, message) ==
    [q EXCEPT !.pc = "done", !.code = code, !.message = message]

InFlight(r) == req[r].pc \notin {"idle", "done"}

Quiescent == \A r \in Reqs : ~InFlight(r)

\* Requests take the slots in order (the slots are interchangeable).
CanStart(r) ==
    /\ req[r].pc = "idle"
    /\ \A r2 \in Reqs : r2 < r => req[r2].pc # "idle"

Snapshot == [courses |-> courses, enrollments |-> enrollments]

----------------------------------------------------------------------------
(* Tables *)

\* plain: SELECT * FROM enrollments WHERE student_id = $1 AND course_code = $2
\* auth:  SELECT * FROM enrollments WHERE user_id = $1 AND course_id = $2
RowsOfPair(rows, s, c) == {e \in rows : e.student = s /\ e.course = c}

\* the table without its unique constraint
UniqueEnrollment_Off(rows, s, c) == TRUE

\* CONSTRAINT unique_enrollment UNIQUE (student_id, course_code);
\* UNIQUE(user_id, course_id): an INSERT of a pair that has a row is refused
UniqueEnrollment(rows, s, c) == RowsOfPair(rows, s, c) = {}

\* the rows of a course whose status is the active one of the variant
ActiveStatus == IF variant = "auth" THEN "active" ELSE "Active"

ActiveRows(rows, c) == {e \in rows : e.course = c /\ e.status = ActiveStatus}

\* SET enrolled = enrolled + 1 / SET current_enrollment = current_enrollment + 1
IncrementCount(cs, c) == [cs EXCEPT ![c].count = @ + 1]

\* the decrement applied twice
DecrementCount_Twice(cs, c) == [cs EXCEPT ![c].count = @ - 2]

\* SET current_enrollment = current_enrollment - 1
DecrementCount(cs, c) == [cs EXCEPT ![c].count = @ - 1]

----------------------------------------------------------------------------
(* The database the server connects to.  Both schemas are created with     *)
(* CREATE TABLE IF NOT EXISTS and keep the rows of earlier runs; the       *)
(* modelled rows are two students (plain) or an admin and a student        *)
(* (auth), and two courses of capacity MaxCap - 1 and MaxCap (the seeded   *)
(* capacities of 25 to 40 scaled down).  In the plain database student s1  *)
(* is enrolled in course c2 by an earlier request (enrollment 1).          *)

CourseRow(capacity) == [capacity |-> capacity, count |-> 0]

----------------------------------------------------------------------------
(* The process and its database module.  Three database modules exist:     *)
(* "persist" (database.js: CREATE TABLE IF NOT EXISTS, seeds with ON       *)
(* CONFLICT DO NOTHING), "reset" (unnamed/part_000 113-281: DROP TABLE     *)
(* first) and "auth" (unnamed/part_000 1-112: users, admin, sample         *)
(* courses).  The plain server loads "persist" or "reset", the auth server *)
(* loads "auth".                                                           *)

\* how many runs of initializeDatabase a caller of the exported function starts
MaxRuns == 2

AdminEmail == "admin@cms.com"

DefaultStudent == "CSC-23S-061"

\* course_code and max_capacity of semester6Courses and semester7Courses
SeedCourses ==
    << <<"CSC-601", 35>>, <<"CSC-602", 30>>, <<"CSC-603", 40>>, <<"CSC-604", 35>>,
       <<"CSC-605", 30>>, <<"CSC-701", 35>>, <<"CSC-702", 40>>, <<"CSC-703", 30>>,
       <<"CSC-704", 35>>, <<"CSC-705", 40>> >>

\* capacity of sampleCourses
SampleCourses == <<30, 25, 35>>

PlainTables == {"students", "courses", "enrollments"}

AuthTables == {"users", "courses", "enrollments"}

\* a statement of initializeDatabase
Stmt(op, arg) == [op |-> op, arg |-> arg]

SeedStatements == [k \in 1..Len(SeedCourses) |-> Stmt("seed", SeedCourses[k])]

CountStatements ==
    <<Stmt("count", "students"), Stmt("count", "courses"), Stmt("count", "enrollments")>>

\* the awaited statements of initializeDatabase, in program order
Program(module) ==
    CASE module = "persist" ->
           <<Stmt("create_if_not_exists", "students"),
             Stmt("create_if_not_exists", "courses"),
             Stmt("create_if_not_exists", "enrollments"),
             Stmt("insert_student", DefaultStudent)>>
           \o SeedStatements \o CountStatements
      [] module = "reset" ->
           <<Stmt("drop", "enrollments"), Stmt("drop", "courses"), Stmt("drop", "students"),
             Stmt("create", "students"), Stmt("create", "courses"),
             Stmt("create", "enrollments"),
             Stmt("insert_student", DefaultStudent)>>
           \o SeedStatements \o CountStatements
      [] module = "auth" ->
           <<Stmt("create_if_not_exists", "users"),
             Stmt("create_if_not_exists", "courses"),
             Stmt("create_if_not_exists", "enrollments"),
             Stmt("admin_check", AdminEmail),
             Stmt("insert_admin", AdminEmail),
             Stmt("course_check", "courses")>>
           \o [k \in 1..Len(SampleCourses) |-> Stmt("sample", SampleCourses[k])]

\* the process before it starts / once it serves, all tables in place
BootRecord(module, pc, tables) ==
    [module |-> module, reachable |-> TRUE, pc |-> pc, i |-> 0, runs |-> 0,
     failed |-> FALSE, listening |-> pc = "up", tables |-> tables]

Serving(module) ==
    BootRecord(module, "up", IF module = "auth" THEN AuthTables ELSE PlainTables)

\* a process whose startup is followed: besides the fields of b, how its
\* connection test went (none, ok, failed), what adminCheck and courseCheck
\* of initializeDatabase hold, where its GET /api/courses in flight stands
\* and what was answered, the storage at the start of the current run and at
\* the end of the first
Process(b) ==
    [tested |-> "none", adminCheck |-> {}, courseCheck |-> 0, get |-> "none",
     served |-> {}, start |-> {}, first |-> {}] @@ b

----------------------------------------------------------------------------
(* initializeDatabase: database.js 13-122, unnamed/part_000 13-96 and      *)
(* 124-244.  One step per awaited statement.                               *)

\* the storage as a whole: which tables exist and their rows
DbState ==
    [tables |-> boot.tables, users |-> users, emails |-> emails, students |-> students,
     courses |-> courses, enrollments |-> enrollments, seq |-> seq]

FreshDb ==
    [tables |-> {}, users |-> <<>>, emails |-> <<>>, students |-> {}, courses |-> <<>>,
     enrollments |-> {}, seq |-> [enrollments |-> 0, courses |-> 0, users |-> 0]]

\* what the storage may hold when the plain initializer starts: nothing; a
\* database in use, with a seed course whose row was edited since; what a run
\* leaves that stopped after its first seed (the tables and the default
\* student come before the seeds, and the catch undoes nothing)
StoredPlain ==
    {FreshDb,
     [FreshDb EXCEPT
        !.tables = PlainTables,
        !.students = {DefaultStudent, "s1"},
        !.courses = ("CSC-601" :> [capacity |-> 36, count |-> 1] @@ "c1" :> CourseRow(1)),
        !.enrollments = {[id |-> 1, student |-> "s1", course |-> "CSC-601",
                          status |-> "Active"]},
        !.seq = [enrollments |-> 1, courses |-> 0, users |-> 0]],
     [FreshDb EXCEPT
        !.tables = PlainTables,
        !.students = {DefaultStudent},
        !.courses = (SeedCourses[1][1] :> CourseRow(SeedCourses[1][2]))]}

\* what the storage may hold when the auth initializer starts: nothing; a
\* database in use; one where the admin's address belongs to a student and no
\* course exists; one without the admin whose courses were all deleted
StoredAuth ==
    {FreshDb,
     [FreshDb EXCEPT
        !.tables = AuthTables,
        !.users = (1 :> "admin" @@ 2 :> "student"),
        !.emails = (1 :> AdminEmail @@ 2 :> "student@cms.com"),
        !.courses = (1 :> [capacity |-> 30, count |-> 1]),
        !.enrollments = {[id |-> 1, student |-> 2, course |-> 1, status |-> "active"]},
        !.seq = [enrollments |-> 1, courses |-> 1, users |-> 2]],
     [FreshDb EXCEPT
        !.tables = AuthTables,
        !.users = (1 :> "student"),
        !.emails = (1 :> AdminEmail),
        !.seq = [enrollments |-> 0, courses |-> 0, users |-> 1]],
     [FreshDb EXCEPT
        !.tables = AuthTables,
        !.users = (1 :> "student"),
        !.emails = (1 :> "student@cms.com"),
        !.seq = [enrollments |-> 0, courses |-> 3, users |-> 1]]}

Stored(module) == IF module = "auth" THEN StoredAuth ELSE StoredPlain

\* INSERT ... ON CONFLICT (course_code) DO UPDATE, where the code has DO NOTHING
SeedCourse_Overwrite(cs, code, capacity) ==
    [c \in DOMAIN cs \cup {code} |-> IF c = code THEN CourseRow(capacity) ELSE cs[c]]

\* INSERT INTO courses ... ON CONFLICT (course_code) DO NOTHING
SeedCourse(cs, code, capacity) ==
    IF code \in DOMAIN cs THEN cs ELSE cs @@ (code :> CourseRow(capacity))

\* the if around a statement: the admin is inserted when adminCheck has no
\* row, the sample courses when courseCheck counted 0
Guard(s, b) ==
    CASE s.op = "insert_admin" -> b.adminCheck = {}
      [] s.op = "sample" -> b.courseCheck = 0
      [] OTHER -> TRUE

\* the index of the statement that runs after statement i; past the end when none
NextStatement(prog, i, b) ==
    LET later == {j \in (i + 1)..Len(prog) : Guard(prog[j], b)}
    IN IF later = {} THEN Len(prog) + 1
       ELSE CHOOSE j \in later : \A k \in later : j <= k

\* initializeDatabase is entered: the first statement is about to run
EnterInitializeDatabase(b) ==
    [b EXCEPT !.pc = "init", !.i = 1, !.runs = @ + 1, !.adminCheck = {},
              !.courseCheck = 0, !.start = {DbState}]

\* the statement at boot.i succeeds
InitStatement ==
    /\ boot.pc = "init"
    /\ LET prog == Program(boot.module)
           s == prog[boot.i]
           tables == CASE s.op \in {"create", "create_if_not_exists"} ->
                            boot.tables \cup {s.arg}
                       [] s.op = "drop" -> boot.tables \ {s.arg}
                       [] OTHER -> boot.tables
           b == [boot EXCEPT
                   !.tables = tables,
                   !.adminCheck = IF s.op = "admin_check"
                                  THEN {id \in DOMAIN emails : emails[id] = s.arg} ELSE @,
                   !.courseCheck = IF s.op = "course_check"
                                   THEN Cardinality(DOMAIN courses) ELSE @]
           next == NextStatement(prog, boot.i, b)
       IN /\ students' = CASE s.op = "insert_student" -> students \cup {s.arg}
                           [] s.op = "drop" /\ s.arg = "students" -> {}
                           [] OTHER -> students
          /\ seq' = CASE s.op = "insert_admin" -> [seq EXCEPT !.users = @ + 1]
                      [] s.op = "sample" -> [seq EXCEPT !.courses = @ + 1]
                      [] s.op = "drop" /\ s.arg = "enrollments" ->
                           [seq EXCEPT !.enrollments = 0]
                      [] OTHER -> seq
          /\ courses' = CASE s.op = "seed" -> SeedCourse(courses, s.arg[1], s.arg[2])
                          [] s.op = "sample" -> courses @@ (seq'.courses :> CourseRow(s.arg))
                          [] s.op = "drop" /\ s.arg = "courses" -> << >>
                          [] OTHER -> courses
          /\ enrollments' = IF s.op = "drop" /\ s.arg = "enrollments" THEN {}
                            ELSE enrollments
          /\ users' = IF s.op = "insert_admin" THEN users @@ (seq'.users :> "admin")
                      ELSE users
          /\ emails' = IF s.op = "insert_admin" THEN emails @@ (seq'.users :> s.arg)
                       ELSE emails
          /\ boot' = IF next <= Len(prog) THEN [b EXCEPT !.i = next]
                     ELSE [b EXCEPT !.pc = "up", !.i = 0,
                                    !.first = IF b.runs = 1 /\ ~b.failed
                                              THEN {[tables |-> tables, users |-> users',
                                                     emails |-> emails',
                                                     students |-> students',
                                                     courses |-> courses',
                                                     enrollments |-> enrollments',
                                                     seq |-> seq']}
                                              ELSE @]
    /\ UNCHANGED <<variant, req, pre>>

\* the statement at boot.i rejects: the catch logs the error and the function
\* returns
InitStatementFails ==
    /\ boot.pc = "init"
    /\ boot' = [boot EXCEPT !.pc = "up", !.i = 0, !.failed = TRUE]
    /\ UNCHANGED <<variant, users, emails, students, courses, enrollments, seq, req, pre>>

----------------------------------------------------------------------------
(* Runs of initializeDatabase, one after the other.  boot.runs counts the *)
(* runs on the storage, over the restarts of the process too.             *)

\* module.exports has initializeDatabase: database.js and the dropping module
\* export it, the auth module exports query and pool only
ExportsInitializeDatabase(module) == module \in {"persist", "reset"}

\* a caller awaits require('./database').initializeDatabase() of the process
CallInitializeDatabase ==
    /\ ExportsInitializeDatabase(boot.module)
    /\ boot.pc = "up"
    /\ boot.runs < MaxRuns
    /\ boot' = EnterInitializeDatabase(boot)
    /\ UNCHANGED <<variant, users, emails, students, courses, enrollments, seq, req, pre>>

\* the process ends and node server.js is started again on the same storage
ProcessRestart ==
    /\ boot.pc = "up"
    /\ boot.runs < MaxRuns
    /\ boot' = [boot EXCEPT !.pc = "off", !.listening = FALSE, !.tested = "none"]
    /\ UNCHANGED <<variant, users, emails, students, courses, enrollments, seq, req, pre>>

\* the storage holds d
Holds(d) ==
    /\ users = d.users /\ emails = d.emails /\ students = d.students
    /\ courses = d.courses /\ enrollments = d.enrollments /\ seq = d.seq

----------------------------------------------------------------------------
(* Startup of the process: require('./database') and app.listen *)

\* authenticateToken of GET /api/courses sent with the token of user 1: the
\* users query finds the row; an unreachable storage or a missing table
\* rejects the query and a missing row ends the request, both with 403
ServeUserFound == boot.reachable /\ "users" \in boot.tables /\ 1 \in DOMAIN users

\* the courses query of GET /api/courses: 200 with the rows, 500 from the
\* catch when the storage is unreachable or the table is missing
ServeCourses == IF ~boot.reachable \/ "courses" \notin boot.tables THEN 500 ELSE 200

\* how far initialization has come
Phase ==
    IF boot.failed THEN "failed"
    ELSE IF boot.pc = "up" /\ boot.runs > 0 THEN "initialized"
    ELSE IF boot.pc = "up" THEN "never_initialized"
    ELSE "initializing"

\* the answer of GET /api/courses is sent in the current phase
Served(b, code) ==
    [b EXCEPT !.get = "none", !.served = @ \cup {[phase |-> Phase, code |-> code]}]

\* node server.js: the database module is loaded, which starts its connection
\* test where it has one at load time ("persist" has none: initialize is
\* defined and never called), and app.listen is called
BootRequire ==
    /\ boot.pc = "off"
    /\ boot' = [boot EXCEPT !.pc = IF boot.module = "persist" THEN "up" ELSE "connecting",
                            !.listening = TRUE]
    /\ UNCHANGED <<variant, users, emails, students, courses, enrollments, seq, req, pre>>

\* pool.connect answers with a client.  The auth module releases it and
\* enters initializeDatabase; testConnection of the dropping module sends
\* SELECT NOW() first
BootConnect ==
    /\ boot.pc = "connecting"
    /\ boot.reachable
    /\ boot' = IF boot.module = "reset" THEN [boot EXCEPT !.pc = "test_query"]
               ELSE EnterInitializeDatabase([boot EXCEPT !.tested = "ok"])
    /\ UNCHANGED <<variant, users, emails, students, courses, enrollments, seq, req, pre>>

\* testConnection: SELECT NOW() is answered, the client released, true
\* returned; initialize then enters initializeDatabase
BootTestQuery ==
    /\ boot.pc = "test_query"
    /\ boot.reachable
    /\ boot' = EnterInitializeDatabase([boot EXCEPT !.tested = "ok"])
    /\ UNCHANGED <<variant, users, emails, students, courses, enrollments, seq, req, pre>>

\* pool.connect or SELECT NOW() rejects, on a storage that does not answer
\* or on one that does: the error is logged, initializeDatabase is not run
BootConnectFails ==
    /\ boot.pc \in {"connecting", "test_query"}
    /\ boot' = [boot EXCEPT !.pc = "up", !.tested = "failed"]
    /\ UNCHANGED <<variant, users, emails, students, courses, enrollments, seq, req, pre>>

\* a client's GET /api/courses is accepted.  The plain route sends its one
\* query; the auth route first sends the users query of authenticateToken.
\* boot.get is where the request in flight stands
BootServe ==
    /\ boot.listening
    /\ boot.get = "none"
    /\ boot' = [boot EXCEPT !.get = IF boot.module = "auth" THEN "sel_user"
                                    ELSE "sel_courses"]
    /\ UNCHANGED <<variant, users, emails, students, courses, enrollments, seq, req, pre>>

\* auth: the users query of authenticateToken is answered
BootServeSelectUser ==
    /\ boot.get = "sel_user"
    /\ boot' = IF ServeUserFound THEN [boot EXCEPT !.get = "sel_courses"]
               ELSE Served(boot, 403)
    /\ UNCHANGED <<variant, users, emails, students, courses, enrollments, seq, req, pre>>

\* the courses query of the handler is answered
BootServeSelectCourses ==
    /\ boot.get = "sel_courses"
    /\ boot' = Served(boot, ServeCourses)
    /\ UNCHANGED <<variant, users, emails, students, courses, enrollments, seq, req, pre>>

\* a query of GET /api/courses rejects although its table is there: the catch
\* of authenticateToken answers 403, the catch of the handler 500
BootServeQueryFails ==
    /\ boot.get \in {"sel_user", "sel_courses"}
    /\ boot' = Served(boot, IF boot.get = "sel_user" THEN 403 ELSE 500)
    /\ UNCHANGED <<variant, users, emails, students, courses, enrollments, seq, req, pre>>

InitBoot ==
    /\ variant \in {"auth", "plain"}
    /\ \E module \in (IF variant = "auth" THEN {"auth"} ELSE {"persist", "reset"}) :
         \E d \in Stored(module) : \E reachable \in BOOLEAN :
            /\ Holds(d)
            /\ boot = Process([BootRecord(module, "off", d.tables)
                                 EXCEPT !.reachable = reachable])
    /\ req = [r \in Reqs |-> IdleReq]
    /\ pre = Snapshot

NextBoot ==
    \/ BootRequire
    \/ BootConnect
    \/ BootTestQuery
    \/ BootConnectFails
    \/ InitStatement
    \/ InitStatementFails
    \/ BootServe
    \/ BootServeSelectUser
    \/ BootServeSelectCourses
    \/ BootServeQueryFails

SpecBoot == InitBoot /\ [][NextBoot]_vars

\* a serving process of each module on each stored database
InitRuns ==
    /\ variant \in {"auth", "plain"}
    /\ \E module \in (IF variant = "auth" THEN {"auth"} ELSE {"persist", "reset"}) :
         \E d \in Stored(module) :
            /\ Holds(d)
            /\ boot = Process(BootRecord(module, "up", d.tables))
    /\ req = [r \in Reqs |-> IdleReq]
    /\ pre = Snapshot

NextRuns ==
    \/ CallInitializeDatabase
    \/ ProcessRestart
    \/ BootRequire
    \/ BootConnect
    \/ BootTestQuery
    \/ BootConnectFails
    \/ InitStatement
    \/ InitStatementFails

SpecRuns == InitRuns /\ [][NextRuns]_vars

\* the tables of a server in use and its requests, none started
InitStorage ==
    /\ variant \in {"auth", "plain"}
    /\ users = IF variant = "auth" THEN (1 :> "admin" @@ 2 :> "student")
                                   ELSE [i \in {} |-> "student"]
    /\ students = IF variant = "plain" THEN {"s1", "s2"} ELSE {}
    /\ courses = IF variant = "auth"
                 THEN (1 :> CourseRow(MaxCap - 1) @@ 2 :> CourseRow(MaxCap))
                 ELSE ("c1" :> CourseRow(MaxCap - 1)
                       @@ "c2" :> IncrementCount("c2" :> CourseRow(MaxCap), "c2")["c2"])
    /\ enrollments = IF variant = "auth" THEN {}
                     ELSE {[id |-> 1, student |-> "s1", course |-> "c2", status |-> "Active"]}
    /\ emails = IF variant = "auth" THEN (1 :> AdminEmail @@ 2 :> "student@cms.com")
                                    ELSE [i \in {} |-> ""]
    /\ seq = IF variant = "auth" THEN [enrollments |-> 0, courses |-> 2, users |-> 2]
                                 ELSE [enrollments |-> 1, courses |-> 0, users |-> 0]
    /\ req = [r \in Reqs |-> IdleReq]
    /\ pre = Snapshot

Init ==
    /\ InitStorage
    /\ boot = Serving(IF variant = "auth" THEN "auth" ELSE "persist")

----------------------------------------------------------------------------
(* plain: POST /api/enrollments, server.js 511-588 *)

\* body validation, then the first query is sent
EnrollStart(r, student_id, course_code) ==
    /\ variant = "plain"
    /\ CanStart(r)
    /\ LET q == [req[r] EXCEPT !.op = "enroll", !.student_id = student_id,
                               !.course_code = course_code]
       IN req' = [req EXCEPT ![r] =
                    IF student_id = "" \/ course_code = ""
                    THEN Respond(q, 400, "Student ID and Course Code are required")
                    ELSE [q EXCEPT !.pc = "sel_student"]]
    /\ UNCHANGED db

\* SELECT * FROM students WHERE student_id = $1
EnrollSelectStudent(r) ==
    /\ variant = "plain"
    /\ req[r].pc = "sel_student"
    /\ req' = [req EXCEPT ![r] =
                 IF req[r].student_id \notin students
                 THEN Respond(@, 404, "Student not found")
                 ELSE [@ EXCEPT !.pc = "sel_course"]]
    /\ UNCHANGED db

\* SELECT * FROM courses WHERE course_code = $1
EnrollSelectCourse(r) ==
    /\ variant = "plain"
    /\ req[r].pc = "sel_course"
    /\ req' = [req EXCEPT ![r] =
                 IF req[r].course_code \notin DOMAIN courses
                 THEN Respond(@, 404, "Course not found")
                 ELSE [@ EXCEPT !.pc = "sel_existing"]]
    /\ UNCHANGED db

\* SELECT * FROM enrollments WHERE student_id = $1 AND course_code = $2
EnrollSelectExisting(r) ==
    /\ variant = "plain"
    /\ req[r].pc = "sel_existing"
    /\ req' = [req EXCEPT ![r] =
                 IF RowsOfPair(enrollments, req[r].student_id, req[r].course_code) # {}
                 THEN Respond(@, 400, "Already enrolled in this course")
                 ELSE [@ EXCEPT !.pc = "insert"]]
    /\ UNCHANGED db

\* INSERT INTO enrollments (student_id, course_code, status) VALUES ($1, $2, 'Active').
\* The SERIAL default is drawn before the unique index is checked; a unique
\* violation is thrown to the handler's catch: 500.
EnrollInsert(r) ==
    /\ variant = "plain"
    /\ req[r].pc = "insert"
    /\ seq' = [seq EXCEPT !.enrollments = @ + 1]
    /\ IF UniqueEnrollment(enrollments, req[r].student_id, req[r].course_code)
       THEN LET row == [id |-> seq'.enrollments, student |-> req[r].student_id,
                        course |-> req[r].course_code, status |-> "Active"]
            IN /\ enrollments' = enrollments \cup {row}
               /\ req' = [req EXCEPT ![r].pc = "update", ![r].inserts = @ + 1,
                                     ![r].result = {row}]
       ELSE /\ enrollments' = enrollments
            /\ req' = [req EXCEPT ![r] =
                         Respond(Throw([@ EXCEPT !.inserts = @ + 1], "unique_violation"),
                                 500, "Error creating enrollment")]
    /\ UNCHANGED <<users, students, courses>>

\* UPDATE courses SET current_enrollment = current_enrollment + 1, then 201
EnrollUpdateCount(r) ==
    /\ variant = "plain"
    /\ req[r].pc = "update"
    /\ courses' = IncrementCount(courses, req[r].course_code)
    /\ req' = [req EXCEPT ![r] = Respond(@, 201, "Enrollment created successfully")]
    /\ UNCHANGED <<users, students, enrollments, seq>>

\* any db.query of the handler rejects (connection lost, statement timeout):
\* the statement has no effect and the handler's catch answers 500
EnrollQueryFails(r) ==
    /\ variant = "plain"
    /\ req[r].op = "enroll"
    /\ req[r].pc \in {"sel_student", "sel_course", "sel_existing", "insert", "update"}
    /\ req' = [req EXCEPT ![r] =
                 Respond(Throw(@, "storage"), 500, "Error creating enrollment")]
    /\ UNCHANGED db

----------------------------------------------------------------------------
(* plain: PUT /api/enrollments/:id/status, server.js 633-690 *)

SetStatusStart(r, id, status) ==
    /\ variant = "plain"
    /\ CanStart(r)
    /\ LET q == [req[r] EXCEPT !.op = "setStatus", !.id = id, !.status = status]
       IN req' = [req EXCEPT ![r] =
                    IF status = ""
                    THEN Respond(q, 400, "Status is required")
                    ELSE [q EXCEPT !.pc = "sel_enrollment"]]
    /\ UNCHANGED db

\* SELECT * FROM enrollments WHERE enrollment_id = $1
SetStatusSelect(r) ==
    /\ variant = "plain"
    /\ req[r].pc = "sel_enrollment"
    /\ LET rows == {e \in enrollments : e.id = req[r].id}
       IN req' = [req EXCEPT ![r] =
                    IF rows = {}
                    THEN Respond(@, 404, "Enrollment not found")
                    ELSE [@ EXCEPT !.pc = "upd_status", !.enrollment = rows]]
    /\ UNCHANGED db

\* the handler taking the decrement branch whatever the status
SetStatusUpdate_AlwaysDecrement(r) ==
    /\ variant = "plain"
    /\ req[r].pc = "upd_status"
    /\ LET stored == VarcharAssign(StatusMaxLen, req[r].status)
       IN /\ enrollments' = {IF e.id = req[r].id /\ stored # {}
                               THEN [e EXCEPT !.status = CHOOSE v \in stored : TRUE]
                               ELSE e : e \in enrollments}
          /\ req' = [req EXCEPT ![r] =
                 IF stored = {}
                 THEN Respond(Throw(@, "value_refused"), 500, "Error updating enrollment")
                 ELSE [@ EXCEPT !.pc = "upd_decrement"]]
    /\ UNCHANGED <<users, students, courses, seq>>

\* UPDATE enrollments SET status = $1 WHERE enrollment_id = $2: the row gets
\* the value the column stores for the string; a value the column refuses
\* rejects the statement and the catch answers 500; when the status is not
\* 'Dropped' the handler answers 200 right after the write
SetStatusUpdate(r) ==
    /\ variant = "plain"
    /\ req[r].pc = "upd_status"
    /\ LET stored == VarcharAssign(StatusMaxLen, req[r].status)
       IN /\ enrollments' = {IF e.id = req[r].id /\ stored # {}
                               THEN [e EXCEPT !.status = CHOOSE v \in stored : TRUE]
                               ELSE e : e \in enrollments}
          /\ req' = [req EXCEPT ![r] =
                 IF stored = {}
                 THEN Respond(Throw(@, "value_refused"), 500, "Error updating enrollment")
                 ELSE IF req[r].status = "Dropped"
                 THEN [@ EXCEPT !.pc = "upd_decrement"]
                 ELSE Respond(@, 200, "Enrollment status updated successfully")]
    /\ UNCHANGED <<users, students, courses, seq>>

\* UPDATE courses SET current_enrollment = current_enrollment - 1
\* WHERE course_code = enrollment.course_code, then 200
SetStatusDecrement(r) ==
    /\ variant = "plain"
    /\ req[r].pc = "upd_decrement"
    /\ LET enrollment == CHOOSE e \in req[r].enrollment : TRUE
       IN courses' = DecrementCount(courses, enrollment.course)
    /\ req' = [req EXCEPT ![r] = Respond(@, 200, "Enrollment status updated successfully")]
    /\ UNCHANGED <<users, students, enrollments, seq>>

SetStatusQueryFails(r) ==
    /\ variant = "plain"
    /\ req[r].op = "setStatus"
    /\ req[r].pc \in {"sel_enrollment", "upd_status", "upd_decrement"}
    /\ req' = [req EXCEPT ![r] =
                 Respond(Throw(@, "storage"), 500, "Error updating enrollment")]
    /\ UNCHANGED db

----------------------------------------------------------------------------
(* auth: the middleware, server.js 21-66 *)

\* the role check left out
IsAdmin_Always(user) == TRUE

\* req.user.role !== 'admin' is refused
IsAdmin(user) == user.role = "admin"

\* jwt.verify answering 401 instead of the 403 of the catch block
Authenticate_Unauthorized(q) ==
    IF ~q.token.present THEN Respond(q, 401, "Access token required")
    ELSE IF ~q.token.valid THEN Respond(q, 401, "Invalid or expired token")
    ELSE [q EXCEPT !.pc = "auth"]

\* authenticateToken up to its query: no token 401, jwt.verify throws 403
Authenticate(q) ==
    IF ~q.token.present THEN Respond(q, 401, "Access token required")
    ELSE IF ~q.token.valid THEN Respond(q, 403, "Invalid or expired token")
    ELSE [q EXCEPT !.pc = "auth"]

\* next() after authenticateToken: isAdmin and the handler up to its first query
AfterAuthenticate(q) ==
    IF q.op = "createCourse"
    THEN LET user == CHOOSE u \in q.user : TRUE
         IN IF ~IsAdmin(user) THEN Respond(q, 403, "Admin access required")
            ELSE IF ~q.bodyOk THEN Respond(q, 400, "All fields are required")
            ELSE [q EXCEPT !.pc = "ins_course"]
    ELSE IF q.courseId = 0 THEN Respond(q, 400, "Course ID is required")
    ELSE [q EXCEPT !.pc = "sel_course"]

\* SELECT id, name, email, role FROM users WHERE id = decoded.id
AuthSelectUser(r) ==
    /\ variant = "auth"
    /\ req[r].pc = "auth"
    /\ LET id == req[r].token.id
           rows == IF id \in DOMAIN users THEN {[id |-> id, role |-> users[id]]} ELSE {}
       IN req' = [req EXCEPT ![r] =
                    IF rows = {}
                    THEN Respond(@, 403, "User not found")
                    ELSE AfterAuthenticate([@ EXCEPT !.user = rows])]
    /\ UNCHANGED db

\* the query of authenticateToken rejects: its catch answers 403
AuthQueryFails(r) ==
    /\ variant = "auth"
    /\ req[r].pc = "auth"
    /\ req' = [req EXCEPT ![r] =
                 Respond(Throw(@, "storage"), 403, "Invalid or expired token")]
    /\ UNCHANGED db

----------------------------------------------------------------------------
(* auth: POST /api/courses, server.js 221-253 *)

CreateCourseStart(r, token, bodyOk, capacity) ==
    /\ variant = "auth"
    /\ CanStart(r)
    /\ req' = [req EXCEPT ![r] =
                 Authenticate([@ EXCEPT !.op = "createCourse", !.token = token,
                                        !.bodyOk = bodyOk, !.capacity = capacity])]
    /\ UNCHANGED db

\* INSERT INTO courses (...) VALUES (...) RETURNING *, then 201
CreateCourseInsert(r) ==
    /\ variant = "auth"
    /\ req[r].pc = "ins_course"
    /\ seq' = [seq EXCEPT !.courses = @ + 1]
    /\ courses' = courses @@ (seq'.courses :> CourseRow(req[r].capacity))
    /\ req' = [req EXCEPT ![r] =
                 Respond([@ EXCEPT !.created = seq'.courses], 201,
                         "Course created successfully")]
    /\ UNCHANGED <<users, students, enrollments>>

CreateCourseQueryFails(r) ==
    /\ variant = "auth"
    /\ req[r].pc = "ins_course"
    /\ req' = [req EXCEPT ![r] =
                 Respond(Throw(@, "storage"), 500, "Error creating course")]
    /\ UNCHANGED db

----------------------------------------------------------------------------
(* auth: POST /api/enrollments, server.js 256-350 *)

\* Row locks of the open transactions.  The INSERT of an enrollment takes
\* FOR KEY SHARE on the course row it references, the counter UPDATE takes
\* FOR NO KEY UPDATE on it; both are held until COMMIT or ROLLBACK.
HoldsKeyShare(q, c) == \E e \in q.ins : e.course = c

HoldsUpdateLock(q, c) == c \in q.upd

\* SELECT ... FOR UPDATE waits for every row lock of another transaction
ForUpdateBlocked(r, c) ==
    \E r2 \in Reqs \ {r} : HoldsKeyShare(req[r2], c) \/ HoldsUpdateLock(req[r2], c)

\* UPDATE courses waits for the update lock of another transaction
UpdateBlocked(r, c) == \E r2 \in Reqs \ {r} : HoldsUpdateLock(req[r2], c)

\* INSERT waits for an uncommitted insert of the same key by another transaction
InsertBlocked(r, u, c) == \E r2 \in Reqs \ {r} : RowsOfPair(req[r2].ins, u, c) # {}

AuthEnrollStart(r, token, courseId) ==
    /\ variant = "auth"
    /\ CanStart(r)
    /\ req' = [req EXCEPT ![r] =
                 Authenticate([@ EXCEPT !.op = "enroll", !.token = token,
                                        !.courseId = courseId])]
    /\ UNCHANGED db

\* db.query('SELECT * FROM courses WHERE id = $1 FOR UPDATE'): a statement of
\* its own on a pooled connection, so its row lock ends with the statement;
\* then the capacity check on the row it returned
AuthEnrollSelectCourse(r) ==
    /\ variant = "auth"
    /\ req[r].pc = "sel_course"
    /\ LET c == req[r].courseId
       IN /\ c \in DOMAIN courses => ~ForUpdateBlocked(r, c)
          /\ req' = [req EXCEPT ![r] =
                       IF c \notin DOMAIN courses
                       THEN Respond(@, 404, "Course not found")
                       ELSE IF courses[c].count >= courses[c].capacity
                       THEN Respond([@ EXCEPT !.course = {courses[c]}], 400, "Course is full")
                       ELSE [@ EXCEPT !.pc = "connect", !.course = {courses[c]}]]
    /\ UNCHANGED db

\* db.pool.connect()
AuthEnrollConnect(r) ==
    /\ variant = "auth"
    /\ req[r].pc = "connect"
    /\ req' = [req EXCEPT ![r].pc = "begin"]
    /\ UNCHANGED db

\* client.query('BEGIN')
AuthEnrollBegin(r) ==
    /\ variant = "auth"
    /\ req[r].pc = "begin"
    /\ req' = [req EXCEPT ![r].pc = "sel_existing", ![r].began = TRUE]
    /\ UNCHANGED db

\* SELECT * FROM enrollments WHERE user_id = $1 AND course_id = $2
AuthEnrollSelectExisting(r) ==
    /\ variant = "auth"
    /\ req[r].pc = "sel_existing"
    /\ req' = [req EXCEPT ![r].pc =
                 IF RowsOfPair(enrollments, req[r].token.id, req[r].courseId) # {}
                 THEN "rollback_dup" ELSE "insert"]
    /\ UNCHANGED db

\* the duplicate path releasing the client before its return and again in finally
AuthEnrollRejectDuplicate_ReleaseTwice(r) ==
    /\ variant = "auth"
    /\ req[r].pc = "rollback_dup"
    /\ req' = [req EXCEPT ![r] =
                 Respond([@ EXCEPT !.began = FALSE, !.rollbacks = @ + 1,
                                   !.releases = @ + 2],
                         400, "Already enrolled in this course")]
    /\ UNCHANGED db

\* client.query('ROLLBACK'); 400; finally client.release()
AuthEnrollRejectDuplicate(r) ==
    /\ variant = "auth"
    /\ req[r].pc = "rollback_dup"
    /\ req' = [req EXCEPT ![r] =
                 Respond([@ EXCEPT !.began = FALSE, !.rollbacks = @ + 1,
                                   !.releases = @ + 1],
                         400, "Already enrolled in this course")]
    /\ UNCHANGED db

\* INSERT INTO enrollments (user_id, course_id) VALUES ($1, $2): status
\* defaults to 'active'.  The row is the transaction's until COMMIT.
AuthEnrollInsert(r) ==
    /\ variant = "auth"
    /\ req[r].pc = "insert"
    /\ ~InsertBlocked(r, req[r].token.id, req[r].courseId)
    /\ seq' = [seq EXCEPT !.enrollments = @ + 1]
    /\ req' = [req EXCEPT ![r] =
                 IF UniqueEnrollment(enrollments, req[r].token.id, req[r].courseId)
                 THEN LET row == [id |-> seq'.enrollments, student |-> req[r].token.id,
                                  course |-> req[r].courseId, status |-> "active"]
                      IN [@ EXCEPT !.pc = "update", !.inserts = @ + 1,
                                   !.ins = {row}, !.result = {row}]
                 ELSE [Throw([@ EXCEPT !.inserts = @ + 1], "unique_violation")
                         EXCEPT !.pc = "rollback_err"]]
    /\ UNCHANGED <<users, students, courses, enrollments>>

\* UPDATE courses SET enrolled = enrolled + 1 WHERE id = $1: locks the row
\* and adds 1 to its latest committed value, visible at COMMIT
AuthEnrollUpdateCount(r) ==
    /\ variant = "auth"
    /\ req[r].pc = "update"
    /\ ~UpdateBlocked(r, req[r].courseId)
    /\ req' = [req EXCEPT ![r].pc = "commit", ![r].upd = {req[r].courseId}]
    /\ UNCHANGED db

\* what COMMIT makes visible: the inserted row and the incremented counter
Committed(q) ==
    [enrollments |-> enrollments \cup q.ins,
     courses |-> [c \in DOMAIN courses |->
                    IF c \in q.upd THEN IncrementCount(courses, c)[c] ELSE courses[c]]]

\* client.query('COMMIT'); 201; finally client.release()
AuthEnrollCommit(r) ==
    /\ variant = "auth"
    /\ req[r].pc = "commit"
    /\ enrollments' = Committed(req[r]).enrollments
    /\ courses' = Committed(req[r]).courses
    /\ req' = [req EXCEPT ![r] =
                 Respond([@ EXCEPT !.began = FALSE, !.ins = {}, !.upd = {},
                                   !.releases = @ + 1],
                         201, "Enrolled successfully")]
    /\ UNCHANGED <<users, students, seq>>

\* A query of the handler rejects.  Before the transaction (the course
\* query, pool.connect) the outer catch answers 500; inside the try block the
\* inner catch runs next.  The ROLLBACK of the duplicate path that rejects
\* was sent, and the server has ended the transaction; the catch sends a
\* second one.
AuthEnrollQueryFails(r) ==
    /\ variant = "auth"
    /\ req[r].op = "enroll"
    /\ req[r].pc \in {"sel_course", "connect", "begin", "sel_existing", "insert",
                      "update", "rollback_dup"}
    /\ req' = [req EXCEPT ![r] =
                 IF req[r].pc \in {"sel_course", "connect"}
                 THEN Respond(Throw(@, "storage"), 500, "Error enrolling in course")
                 ELSE IF req[r].pc = "rollback_dup"
                 THEN [Throw(@, "storage") EXCEPT !.pc = "rollback_err", !.began = FALSE,
                                                  !.rollbacks = @ + 1]
                 ELSE [Throw(@, "storage") EXCEPT !.pc = "rollback_err"]]
    /\ UNCHANGED db

\* COMMIT rejects.  The server either never committed, or committed and the
\* answer was lost (applied): the client cannot tell; the inner catch runs next.
AuthEnrollCommitFails(r, applied) ==
    /\ variant = "auth"
    /\ req[r].pc = "commit"
    /\ enrollments' = IF applied THEN Committed(req[r]).enrollments ELSE enrollments
    /\ courses' = IF applied THEN Committed(req[r]).courses ELSE courses
    /\ req' = [req EXCEPT ![r] =
                 IF applied
                 THEN [Throw(@, "storage") EXCEPT !.pc = "rollback_err",
                                                  !.began = FALSE, !.ins = {}, !.upd = {}]
                 ELSE [Throw(@, "storage") EXCEPT !.pc = "rollback_err"]]
    /\ UNCHANGED <<users, students, seq>>

\* the catch block trying the insert again instead of rolling back
AuthEnrollRollback_Retry(r) ==
    /\ variant = "auth"
    /\ req[r].pc = "rollback_err"
    /\ req' = [req EXCEPT ![r].pc = "insert"]
    /\ UNCHANGED db

\* catch: client.query('ROLLBACK'); throw; finally client.release(); the
\* outer catch answers 500.  The uncommitted row and counter update are
\* discarded and the locks freed, also when ROLLBACK itself rejects (the
\* server ends the transaction of a broken connection).
AuthEnrollRollback(r) ==
    /\ variant = "auth"
    /\ req[r].pc = "rollback_err"
    /\ req' = [req EXCEPT ![r] =
                 Respond([@ EXCEPT !.began = FALSE, !.ins = {}, !.upd = {},
                                   !.rollbacks = @ + 1, !.releases = @ + 1],
                         500, "Error enrolling in course")]
    /\ UNCHANGED db

----------------------------------------------------------------------------
(* auth: POST /api/auth/register and POST /api/auth/login, server.js 69-198, *)
(* as used by a caller who knows what the source of the server says.        *)

\* register: (name, email and password present; email; role of the body, ""
\* when the body has none; the password of the body is a JSON string, not a
\* number, an array or an object)
RegisterArgs ==
    {<<TRUE, "eve@cms.com", "", TRUE>>, <<TRUE, "eve@cms.com", "admin", TRUE>>,
     <<TRUE, "mallory@cms.com", "student", TRUE>>, <<TRUE, AdminEmail, "admin", TRUE>>,
     <<FALSE, "eve@cms.com", "", TRUE>>,
     <<TRUE, "eve@cms.com", "", FALSE>>, <<TRUE, AdminEmail, "admin", FALSE>>}

\* login: (email, bcrypt.compare accepts the password).  The caller knows the
\* passwords of the student account, of the accounts registered by
\* themselves, and 'admin123', the password the initializer gives the admin
\* it inserts; "" is a missing field.  A password that is a JSON number, an
\* array or an object is not a string; bcrypt.compare accepts none of these
LoginArgs ==
    {<<"eve@cms.com", TRUE, TRUE>>, <<"student@cms.com", TRUE, TRUE>>,
     <<"student@cms.com", FALSE, TRUE>>, <<AdminEmail, TRUE, TRUE>>,
     <<AdminEmail, FALSE, TRUE>>, <<"nobody@cms.com", TRUE, TRUE>>,
     <<"", FALSE, TRUE>>,
     <<"student@cms.com", FALSE, FALSE>>, <<"nobody@cms.com", FALSE, FALSE>>}

\* the fields a register or login request has besides the common ones
AccountReq(q, op, email, role, passwordOk, passwordIsString) ==
    [email |-> email, role |-> role, passwordOk |-> passwordOk,
     passwordIsString |-> passwordIsString, issued |-> NoToken]
    @@ [q EXCEPT !.op = op]

\* SELECT * FROM users WHERE email = $1
UsersByEmail(email) == {id \in DOMAIN emails : emails[id] = email}

RegisterStart(r, bodyOk, email, role, passwordIsString) ==
    /\ variant = "auth"
    /\ CanStart(r)
    /\ LET q == AccountReq([req[r] EXCEPT !.bodyOk = bodyOk], "register", email, role,
                           TRUE, passwordIsString)
       IN req' = [req EXCEPT ![r] =
                    IF ~bodyOk THEN Respond(q, 400, "All fields are required")
                    ELSE [q EXCEPT !.pc = "sel_user"]]
    /\ UNCHANGED <<users, emails, students, courses, enrollments, seq>>

\* the existingUser query is answered; bcrypt.hash is awaited next
RegisterSelectExisting(r) ==
    /\ variant = "auth"
    /\ req[r].op = "register" /\ req[r].pc = "sel_user"
    /\ req' = [req EXCEPT ![r] =
                 IF UsersByEmail(req[r].email) # {}
                 THEN Respond(@, 400, "User already exists")
                 ELSE [@ EXCEPT !.pc = "hash"]]
    /\ UNCHANGED <<users, emails, students, courses, enrollments, seq>>

\* bcrypt.hash(password, 10) resolves and the INSERT is sent; it rejects
\* ("Illegal arguments") for a password that is not a string, which the catch
\* answers 500 with no INSERT sent
RegisterHash(r) ==
    /\ variant = "auth"
    /\ req[r].op = "register" /\ req[r].pc = "hash"
    /\ req' = [req EXCEPT ![r] =
                 IF ~req[r].passwordIsString
                 THEN Respond(Throw(@, "illegal_arguments"), 500,
                              "Server error during registration")
                 ELSE [@ EXCEPT !.pc = "ins_user"]]
    /\ UNCHANGED <<users, emails, students, courses, enrollments, seq>>

\* INSERT INTO users (name, email, password, role) VALUES (..., role ||
\* 'student') RETURNING ...; jwt.sign for the new row; 201.  email is UNIQUE:
\* a row inserted since the check makes the INSERT reject, answered 500
RegisterInsert(r) ==
    /\ variant = "auth"
    /\ req[r].op = "register" /\ req[r].pc = "ins_user"
    /\ seq' = [seq EXCEPT !.users = @ + 1]
    /\ LET unique == UsersByEmail(req[r].email) = {}
           row == [id |-> seq'.users,
                   role |-> IF req[r].role = "" THEN "student" ELSE req[r].role]
       IN /\ users' = IF unique THEN users @@ (row.id :> row.role) ELSE users
          /\ emails' = IF unique THEN emails @@ (row.id :> req[r].email) ELSE emails
          /\ req' = [req EXCEPT ![r] =
                       IF unique
                       THEN Respond([@ EXCEPT !.result = {row}, !.issued = TokenOf(row.id)],
                                    201, "Registration successful")
                       ELSE Respond(Throw(@, "unique_violation"), 500,
                                    "Server error during registration")]
    /\ UNCHANGED <<students, courses, enrollments>>

RegisterQueryFails(r) ==
    /\ variant = "auth"
    /\ req[r].op = "register" /\ req[r].pc \in {"sel_user", "ins_user"}
    /\ req' = [req EXCEPT ![r] =
                 Respond(Throw(@, "storage"), 500, "Server error during registration")]
    /\ UNCHANGED <<users, emails, students, courses, enrollments, seq>>

LoginStart(r, email, passwordOk, passwordIsString) ==
    /\ variant = "auth"
    /\ CanStart(r)
    /\ LET q == AccountReq(req[r], "login", email, "", passwordOk, passwordIsString)
       IN req' = [req EXCEPT ![r] =
                    IF email = "" THEN Respond(q, 400, "Email and password are required")
                    ELSE [q EXCEPT !.pc = "sel_user"]]
    /\ UNCHANGED <<users, emails, students, courses, enrollments, seq>>

\* the userResult query is answered: 401 without a row, else bcrypt.compare
\* is awaited with the row found
LoginSelect(r) ==
    /\ variant = "auth"
    /\ req[r].op = "login" /\ req[r].pc = "sel_user"
    /\ LET rows == UsersByEmail(req[r].email)
       IN req' = [req EXCEPT ![r] =
                    IF rows = {}
                    THEN Respond(@, 401, "Invalid credentials")
                    ELSE LET id == CHOOSE u \in rows : TRUE
                         IN [@ EXCEPT !.pc = "compare",
                                      !.result = {[id |-> id, role |-> users[id]]}]]
    /\ UNCHANGED <<users, emails, students, courses, enrollments, seq>>

\* bcrypt.compare rejects ("Illegal arguments") for a password that is not
\* a string, which the catch answers 500; else it resolves: 401 when it
\* refuses the password, else jwt.sign for the row that was read and 200
LoginCompare(r) ==
    /\ variant = "auth"
    /\ req[r].op = "login" /\ req[r].pc = "compare"
    /\ req' = [req EXCEPT ![r] =
                 IF ~req[r].passwordIsString
                 THEN Respond(Throw(@, "illegal_arguments"), 500,
                              "Server error during login")
                 ELSE IF ~req[r].passwordOk
                 THEN Respond(@, 401, "Invalid credentials")
                 ELSE LET user == CHOOSE u \in req[r].result : TRUE
                      IN Respond([@ EXCEPT !.issued = TokenOf(user.id)],
                                 200, "Login successful")]
    /\ UNCHANGED <<users, emails, students, courses, enrollments, seq>>

LoginQueryFails(r) ==
    /\ variant = "auth"
    /\ req[r].op = "login" /\ req[r].pc = "sel_user"
    /\ req' = [req EXCEPT ![r] =
                 Respond(Throw(@, "storage"), 500, "Server error during login")]
    /\ UNCHANGED <<users, emails, students, courses, enrollments, seq>>

\* process.env.JWT_SECRET || 'cms-secret-key': the key of the process is the
\* one of its environment, which the caller does not know, or the constant
\* of the source when the environment sets none
DefaultSecret == "cms-secret-key"

JWT_SECRET == boot.secret

\* the ids a caller puts into a token they sign themself: the admin, the
\* student, the next user
SelfSignedIds == 1..3

\* the tokens the caller can send: none; one that jwt.verify rejects; those
\* the server issued to them in an answer to register or login; and, when the
\* key is the constant of the source, tokens they signed themself
CallerTokens ==
    {NoToken, BadToken}
    \cup {req[r].issued : r \in {r2 \in Reqs : req[r2].op \in {"register", "login"}}}
    \cup (IF JWT_SECRET = DefaultSecret THEN {TokenOf(i) : i \in SelfSignedIds} ELSE {})

\* POST /api/courses with a complete body and one of the caller's tokens
CallerCreateCourse(r) ==
    \E token \in CallerTokens : CreateCourseStart(r, token, TRUE, 1)

\* the auth server serving, with or without JWT_SECRET in its environment
InitAccess ==
    /\ InitStorage
    /\ variant = "auth"
    /\ \E secret \in {"env", DefaultSecret} : boot = [secret |-> secret] @@ Serving("auth")

NextAccess ==
    \/ \E r \in Reqs : \E a \in RegisterArgs :
         RegisterStart(r, a[1], a[2], a[3], a[4]) /\ UNCHANGED <<variant, pre, boot>>
    \/ \E r \in Reqs : \E a \in LoginArgs :
         LoginStart(r, a[1], a[2], a[3]) /\ UNCHANGED <<variant, pre, boot>>
    \/ \E r \in Reqs : CallerCreateCourse(r) /\ UNCHANGED <<variant, pre, emails, boot>>
    \/ \E r \in Reqs : RegisterSelectExisting(r) /\ UNCHANGED <<variant, pre, boot>>
    \/ \E r \in Reqs : RegisterHash(r) /\ UNCHANGED <<variant, pre, boot>>
    \/ \E r \in Reqs : RegisterInsert(r) /\ UNCHANGED <<variant, pre, boot>>
    \/ \E r \in Reqs : RegisterQueryFails(r) /\ UNCHANGED <<variant, pre, boot>>
    \/ \E r \in Reqs : LoginSelect(r) /\ UNCHANGED <<variant, pre, boot>>
    \/ \E r \in Reqs : LoginCompare(r) /\ UNCHANGED <<variant, pre, boot>>
    \/ \E r \in Reqs : LoginQueryFails(r) /\ UNCHANGED <<variant, pre, boot>>
    \/ \E r \in Reqs : AuthSelectUser(r) /\ UNCHANGED <<variant, pre, emails, boot>>
    \/ \E r \in Reqs : AuthQueryFails(r) /\ UNCHANGED <<variant, pre, emails, boot>>
    \/ \E r \in Reqs : CreateCourseInsert(r) /\ UNCHANGED <<variant, pre, emails, boot>>
    \/ \E r \in Reqs : CreateCourseQueryFails(r) /\ UNCHANGED <<variant, pre, emails, boot>>

SpecAccess == InitAccess /\ [][NextAccess]_vars

----------------------------------------------------------------------------
(* Specifications *)

Start(r) ==
    \/ \E a \in EnrollArgs : EnrollStart(r, a[1], a[2])
    \/ \E a \in SetStatusArgs : SetStatusStart(r, a[1], a[2])
    \/ \E a \in AuthEnrollArgs : AuthEnrollStart(r, a[1], a[2])
    \/ \E a \in CreateCourseArgs : CreateCourseStart(r, a[1], a[2], a[3])

Step(r) ==
    \/ EnrollSelectStudent(r)
    \/ EnrollSelectCourse(r)
    \/ EnrollSelectExisting(r)
    \/ EnrollInsert(r)
    \/ EnrollUpdateCount(r)
    \/ EnrollQueryFails(r)
    \/ SetStatusSelect(r)
    \/ SetStatusUpdate(r)
    \/ SetStatusDecrement(r)
    \/ SetStatusQueryFails(r)
    \/ AuthSelectUser(r)
    \/ AuthQueryFails(r)
    \/ CreateCourseInsert(r)
    \/ CreateCourseQueryFails(r)
    \/ AuthEnrollSelectCourse(r)
    \/ AuthEnrollConnect(r)
    \/ AuthEnrollBegin(r)
    \/ AuthEnrollSelectExisting(r)
    \/ AuthEnrollRejectDuplicate(r)
    \/ AuthEnrollInsert(r)
    \/ AuthEnrollUpdateCount(r)
    \/ AuthEnrollCommit(r)
    \/ AuthEnrollQueryFails(r)
    \/ \E applied \in BOOLEAN : AuthEnrollCommitFails(r, applied)
    \/ AuthEnrollRollback(r)

\* Requests are handled concurrently: any request in flight takes the next step.
Next ==
    \/ \E r \in Reqs : Start(r) /\ UNCHANGED <<variant, pre, emails, boot>>
    \/ \E r \in Reqs : Step(r) /\ UNCHANGED <<variant, pre, emails, boot>>

Spec == Init /\ [][Next]_vars

\* Sequential runs: a request starts only when no other is in flight.
NextSeq ==
    \/ \E r \in Reqs : Quiescent /\ Start(r) /\ pre' = Snapshot
                        /\ UNCHANGED <<variant, emails, boot>>
    \/ \E r \in Reqs : Step(r) /\ UNCHANGED <<variant, pre, emails, boot>>

SpecSeq == Init /\ [][NextSeq]_vars

\* The plain server answering, one after the other, the status writes of a
\* client that sends arbitrary strings.
InitStatus == Init /\ variant = "plain"

NextStatus ==
    \/ \E r \in Reqs : \E a \in WideStatusArgs :
         /\ Quiescent /\ SetStatusStart(r, a[1], a[2]) /\ pre' = Snapshot
         /\ UNCHANGED <<variant, emails, boot>>
    \/ \E r \in Reqs : SetStatusSelect(r) /\ UNCHANGED <<variant, pre, emails, boot>>
    \/ \E r \in Reqs : SetStatusUpdate(r) /\ UNCHANGED <<variant, pre, emails, boot>>
    \/ \E r \in Reqs : SetStatusDecrement(r) /\ UNCHANGED <<variant, pre, emails, boot>>
    \/ \E r \in Reqs : SetStatusQueryFails(r) /\ UNCHANGED <<variant, pre, emails, boot>>

SpecStatus == InitStatus /\ [][NextStatus]_vars

----------------------------------------------------------------------------
(* Properties *)

\* the student and the course an enroll request names
Student(q) == IF variant = "auth" THEN q.token.id ELSE q.student_id

Course(q) == IF variant = "auth" THEN q.courseId ELSE q.course_code

\* the request names a student that exists (auth: a valid token of a stored user)
KnownStudent(q) ==
    IF variant = "auth" THEN q.token.valid /\ q.token.id \in DOMAIN users
    ELSE q.student_id \in students

\* r is the request that started last: in a sequential run, pre holds the
\* tables as they were when r started
Latest(r) ==
    /\ req[r].pc # "idle"
    /\ \A r2 \in Reqs : r2 > r => req[r2].pc = "idle"

Finished(r) == req[r].pc = "done"

RowsOfCourse(rows, c) == {e \in rows : e.course = c}

\* C1: whenever no request is in flight, after requests that met no storage
\* error and wrote only the statuses Active and Dropped, every course's counter
\* equals the number of its enrollment rows whose status is active.
C1_CounterEqualsActiveRows ==
    (/\ Quiescent
     /\ \A r \in Reqs : req[r].err = "none" /\ req[r].status \in {"", "Active", "Dropped"})
    => \A c \in DOMAIN courses :
         courses[c].count = Cardinality(ActiveRows(enrollments, c))

\* C2: on the server that checks the capacity (auth), when every request of
\* the run is an enroll of the same course by a different existing user, the
\* course started with counter 0 and has fewer seats than there are requests,
\* then once all have answered exactly capacity many got 201, the others got
\* "Course is full", and the counter equals the capacity.
C2_EnrollsFillToCapacity ==
    \A c \in DOMAIN courses :
      LET ok == {r \in Reqs : req[r].code = 201}
      IN (/\ variant = "auth"
          /\ \A r \in Reqs : /\ Finished(r) /\ req[r].op = "enroll"
                             /\ req[r].err = "none" /\ KnownStudent(req[r])
                             /\ Course(req[r]) = c
          /\ \A r1, r2 \in Reqs : r1 # r2 => Student(req[r1]) # Student(req[r2])
          /\ pre.courses[c].count = 0
          /\ courses[c].capacity < MaxReq)
         => /\ Cardinality(ok) = courses[c].capacity
            /\ \A r \in Reqs \ ok : req[r].code = 400 /\ req[r].message = "Course is full"
            /\ courses[c].count = courses[c].capacity

\* C3: in a run of enroll requests, every state any request can observe has,
\* for each course, as many enrollment rows as the counter counts: no row
\* without its increment and no increment without its row, also after a
\* failed step.
C3_InsertAndIncrementAtomic ==
    (\A r \in Reqs : req[r].op \in {"none", "enroll", "createCourse"})
    => \A c \in DOMAIN courses :
         courses[c].count = Cardinality(RowsOfCourse(enrollments, c))

\* C4: there is at most one enrollment row per (student, course) pair.
C4_OneRowPerPair ==
    \A e1, e2 \in enrollments :
      (e1.student = e2.student /\ e1.course = e2.course) => e1 = e2

\* C4 witness: two requests each ran the INSERT for the same pair, and the
\* pair has its one row.
C4_Witness ==
    \E r1, r2 \in Reqs :
      /\ r1 # r2
      /\ req[r1].op = "enroll" /\ req[r2].op = "enroll"
      /\ req[r1].inserts = 1 /\ req[r2].inserts = 1
      /\ Student(req[r1]) = Student(req[r2]) /\ Course(req[r1]) = Course(req[r2])
      /\ Cardinality(RowsOfPair(enrollments, Student(req[r1]), Course(req[r1]))) = 1

\* C5: in a sequential run, an enroll of a pair that already has a row (and
\* that meets no storage error) is answered 400 "Already enrolled in this
\* course" and leaves the tables as they were.
C5_DuplicateRejectedAsAlreadyEnrolled ==
    \A r \in Reqs :
      (/\ Latest(r) /\ Finished(r) /\ req[r].op = "enroll" /\ req[r].err = "none"
       /\ KnownStudent(req[r])
       /\ RowsOfPair(pre.enrollments, Student(req[r]), Course(req[r])) # {})
      => /\ req[r].code = 400
         /\ req[r].message = "Already enrolled in this course"
         /\ Snapshot = pre

\* C6: in a sequential run, an enroll of an existing course whose counter has
\* reached its capacity, by an existing student with no row for the course
\* (and that meets no storage error), is answered 400 "Course is full" and
\* leaves the tables as they were.
C6_FullCourseRejected ==
    \A r \in Reqs :
      (/\ Latest(r) /\ Finished(r) /\ req[r].op = "enroll" /\ req[r].err = "none"
       /\ KnownStudent(req[r])
       /\ Course(req[r]) \in DOMAIN pre.courses
       /\ pre.courses[Course(req[r])].count >= pre.courses[Course(req[r])].capacity
       /\ RowsOfPair(pre.enrollments, Student(req[r]), Course(req[r])) = {})
      => /\ req[r].code = 400
         /\ req[r].message = "Course is full"
         /\ Snapshot = pre

\* the request is a drop, answered 200, of an enrollment that was active when
\* the request started
DroppedActive(r) ==
    /\ Latest(r) /\ Finished(r)
    /\ req[r].op = "setStatus" /\ req[r].status = "Dropped" /\ req[r].code = 200
    /\ \E e \in pre.enrollments : e.id = req[r].id /\ e.status = "Active"

\* C7: in a sequential run, a drop answered 200 of an enrollment that was
\* active sets that row's status to Dropped, lowers the counter of the row's
\* course by exactly 1 and leaves every other row and counter as it was.
C7_DropDecrementsByOne ==
    \A r \in Reqs :
      DroppedActive(r) =>
        LET e == CHOOSE e \in pre.enrollments : e.id = req[r].id
        IN /\ enrollments = (pre.enrollments \ {e}) \cup {[e EXCEPT !.status = "Dropped"]}
           /\ courses = [c \in DOMAIN pre.courses |->
                           IF c = e.course
                           THEN [pre.courses[c] EXCEPT !.count = @ - 1]
                           ELSE pre.courses[c]]

\* C7 witness: a drop of an active enrollment has been answered 200.
C7_Witness == \E r \in Reqs : DroppedActive(r)

\* C8: in a run of drop requests, a course's counter falls by at most the
\* number of its enrollments that were active and have been dropped: a
\* repeated or concurrent drop of one enrollment lowers it once.
C8_DropsDecrementOnce ==
    (\A r \in Reqs : req[r].op \in {"none", "setStatus"} /\ req[r].status \in {"", "Dropped"})
    => \A c \in DOMAIN courses :
         pre.courses[c].count - courses[c].count
           <= Cardinality({e \in ActiveRows(pre.enrollments, c) :
                             \E r \in Reqs : req[r].op = "setStatus" /\ req[r].id = e.id})

\* the INSERT, the counter UPDATE or the COMMIT of an auth enroll threw
FailedInTransaction(r) ==
    /\ variant = "auth" /\ req[r].op = "enroll"
    /\ req[r].err # "none"
    /\ req[r].at \in {"insert", "update", "commit"}

\* C9: an auth enroll whose INSERT, counter UPDATE or COMMIT throws goes to
\* the catch block, issues one ROLLBACK that discards its uncommitted row and
\* counter update, and answers 500; no request runs the INSERT twice.
C9_FailureRollsBackAnswers500 ==
    \A r \in Reqs :
      /\ req[r].inserts <= 1
      /\ FailedInTransaction(r) =>
           /\ req[r].pc \in {"rollback_err", "done"}
           /\ Finished(r) =>
                /\ req[r].code = 500
                /\ req[r].rollbacks = 1
                /\ req[r].ins = {} /\ req[r].upd = {}

\* C9 witness: an INSERT refused by the unique constraint and a failed COMMIT
\* have each been answered 500 after the rollback.
C9_Witness ==
    \E r1, r2 \in Reqs :
      /\ FailedInTransaction(r1) /\ Finished(r1) /\ req[r1].err = "unique_violation"
      /\ FailedInTransaction(r2) /\ Finished(r2) /\ req[r2].at = "commit"

\* authenticateToken attached an identity whose stored role is admin
AuthenticatedAdmin(q) ==
    /\ q.user # {}
    /\ q.token.id \in DOMAIN users
    /\ users[q.token.id] = "admin"

\* C10: every course row added since the start was inserted by a create-course
\* request that authenticateToken passed with an identity whose stored role is
\* admin; a create-course request without such an identity is answered 401 or
\* 403 and inserts no row.
C10_OnlyAdminCreatesCourse ==
    /\ \A c \in DOMAIN courses \ DOMAIN pre.courses :
         \E r \in Reqs : /\ req[r].op = "createCourse" /\ req[r].created = c
                         /\ AuthenticatedAdmin(req[r])
    /\ \A r \in Reqs :
         (req[r].op = "createCourse" /\ Finished(r) /\ ~AuthenticatedAdmin(req[r]))
         => req[r].code \in {401, 403} /\ req[r].created = 0

\* C10 witness: an admin's request has created a course and a request of an
\* authenticated non-admin has been refused.
C10_Witness ==
    \E r1, r2 \in Reqs :
      /\ req[r1].op = "createCourse" /\ req[r1].created # 0
      /\ req[r2].op = "createCourse" /\ Finished(r2)
      /\ req[r2].user # {} /\ ~AuthenticatedAdmin(req[r2])

----------------------------------------------------------------------------
(* authenticateToken: response codes *)

\* the request went through authenticateToken and has answered
Authenticated(r) == variant = "auth" /\ Finished(r) /\ req[r].op \in {"enroll", "createCourse"}

\* a credential that was sent and fails jwt.verify
FailsValidation(q) == q.token.present /\ ~q.token.valid

\* a credential that passes jwt.verify and names no row of users, the query
\* having answered
IdentityGone(q) ==
    q.token.present /\ q.token.valid /\ q.token.id \notin DOMAIN users /\ q.err = "none"

\* C11 as stated: a credential that fails validation and a valid credential
\* whose user row no longer exists are answered with two different response
\* codes.
C11_DistinctCodes ==
    \A r1, r2 \in Reqs :
        (Authenticated(r1) /\ Authenticated(r2)
         /\ FailsValidation(req[r1]) /\ IdentityGone(req[r2]))
        => req[r1].code # req[r2].code

\* C11 amended: both are answered with the code 403 and are told apart by the
\* message only ("Invalid or expired token", "User not found"); the one
\* credential failure with a code of its own is the missing credential, 401.
C11_SameCodeDistinctMessages ==
    \A r \in Reqs : Authenticated(r) =>
        /\ FailsValidation(req[r]) =>
             req[r].code = 403 /\ req[r].message = "Invalid or expired token"
        /\ IdentityGone(req[r]) =>
             req[r].code = 403 /\ req[r].message = "User not found"
        /\ ~req[r].token.present => req[r].code = 401

C11_Witness ==
    \E r1, r2 \in Reqs :
        /\ Authenticated(r1) /\ FailsValidation(req[r1]) /\ req[r1].code = 403
        /\ Authenticated(r2) /\ IdentityGone(req[r2]) /\ req[r2].code = 403

----------------------------------------------------------------------------
(* enroll: order of the precondition checks *)

\* the message of the first precondition that fails for the enroll request q
\* on the tables t, in the order course exists, student exists, no row for
\* the pair, counter below capacity; "" when none fails
FirstFailing(q, t) ==
    IF Course(q) \notin DOMAIN t.courses THEN "Course not found"
    ELSE IF ~KnownStudent(q) THEN "Student not found"
    ELSE IF RowsOfPair(t.enrollments, Student(q), Course(q)) # {}
         THEN "Already enrolled in this course"
    ELSE IF t.courses[Course(q)].count >= t.courses[Course(q)].capacity
         THEN "Course is full"
    ELSE ""

\* an enroll request that passed the validation of its body (and, on the
\* auth server, authenticateToken) and met no storage error
ReachedPreconditions(q) ==
    /\ q.op = "enroll" /\ q.err = "none"
    /\ IF variant = "auth" THEN q.user # {} /\ q.courseId # 0
       ELSE q.student_id # "" /\ q.course_code # ""

\* C13: in a sequential run, an enroll request for which some precondition
\* fails on the tables it started on is answered with the first one that fails
\* in the order course exists, student exists, no row for the pair, counter
\* below capacity.
C13_FirstFailingPreconditionReported ==
    \A r \in Reqs :
        (Latest(r) /\ Finished(r) /\ ReachedPreconditions(req[r])
         /\ FirstFailing(req[r], pre) # "")
        => req[r].message = FirstFailing(req[r], pre)

----------------------------------------------------------------------------
(* enroll: where the deciding reads happen *)

\* the in-flight enroll request q has made a read that decides its outcome:
\* auth the course row with its counter, plain the duplicate check it passed
HasDecidingRead(q) ==
    /\ q.op = "enroll" /\ q.pc # "done" /\ q.err = "none"
    /\ IF variant = "auth" THEN q.course # {} ELSE q.pc \in {"insert", "update"}

\* C14: while an enroll request that has made a deciding read is in flight,
\* its transaction has begun, and the committed state still is what it read
\* (the course row is locked until the transaction ends): the counter has the
\* value read, and no other request's row for the pair has appeared.
C14_DecidingReadsInsideTransaction ==
    \A r \in Reqs : HasDecidingRead(req[r]) =>
        /\ req[r].began
        /\ variant = "auth" =>
             \A row \in req[r].course : courses[req[r].courseId].count = row.count
        /\ req[r].pc = "insert" =>
             RowsOfPair(enrollments, Student(req[r]), Course(req[r])) = {}

----------------------------------------------------------------------------
(* setStatus to Dropped: status write and decrement *)

\* r is the only request of the run so far and drops an enrollment that was
\* active when the run began
OnlyDropOfActive(r) ==
    /\ req[r].op = "setStatus" /\ req[r].status = "Dropped"
    /\ \A r2 \in Reqs \ {r} : req[r2].pc = "idle"
    /\ \E e \in pre.enrollments : e.id = req[r].id /\ e.status = ActiveStatus

\* C15: when the only request of a run drops an active enrollment, then in
\* every state of the run the row reads Dropped exactly when the counter of its
\* course has been decremented: no state shows the one write without the
\* other, a failed decrement included.
C15_StatusAndDecrementAtomic ==
    \A r \in Reqs : OnlyDropOfActive(r) =>
        \A e \in enrollments : e.id = req[r].id =>
            (e.status = "Dropped"
             <=> courses[e.course].count = pre.courses[e.course].count - 1)

----------------------------------------------------------------------------
(* setStatus: what it writes and what it leaves alone *)

\* the latest request is a setStatus with a non-empty status on an existing
\* row, has answered, and no query of it failed for a reason of the storage
SetStatusDone(r) ==
    /\ Latest(r) /\ Finished(r)
    /\ req[r].op = "setStatus" /\ req[r].status # "" /\ req[r].err # "storage"
    /\ \E e \in pre.enrollments : e.id = req[r].id

\* every row but the identified one is as before; a status other than
\* Dropped leaves every counter as before, Dropped leaves the counters of the
\* other courses as before
SetStatusFrame(r) ==
    /\ {e \in enrollments : e.id # req[r].id} = {e \in pre.enrollments : e.id # req[r].id}
    /\ {e.id : e \in enrollments} = {e.id : e \in pre.enrollments}
    /\ req[r].status # "Dropped" => courses = pre.courses
    /\ \A e \in pre.enrollments : e.id = req[r].id =>
         \A c \in DOMAIN pre.courses : c # e.course => courses[c] = pre.courses[c]

\* the identified row, as before but for its status, which is v
SetStatusWrote(r, v) ==
    \A e \in pre.enrollments : e.id = req[r].id => [e EXCEPT !.status = v] \in enrollments

\* in a sequential run: answered 200, the identified row has the status of
\* the request and nothing else changed
SetStatusEffect(r) ==
    /\ req[r].code = 200
    /\ SetStatusWrote(r, req[r].status)
    /\ SetStatusFrame(r)

\* the characters of s after the n-th are all spaces: s is t followed by
\* spaces only, for a t of n characters
CutTo(n, s) ==
    {t \in {w \o Spaces(k) : w \in StatusWords, k \in 0..n} :
       Len(t) = n /\ t \o Spaces(Len(s) - n) = s}

----------------------------------------------------------------------------
(* counter below zero *)

\* every request of the run so far met no storage error, and every setStatus
\* to Dropped that has read its enrollment row read it as active
DropsTargetActiveRows ==
    \A r \in Reqs :
        /\ req[r].err = "none"
        /\ (req[r].op = "setStatus" /\ req[r].status = "Dropped") =>
             \A e \in req[r].enrollment : e.status = ActiveStatus

\* C17: in every run in which each drop targets an enrollment whose row is
\* active when the request reads it, no course's counter is below zero in any
\* state.
C17_CounterNeverNegative ==
    DropsTargetActiveRows => \A c \in DOMAIN courses : courses[c].count >= 0

----------------------------------------------------------------------------
(* two enroll requests of one pair *)

\* r1 and r2 enroll the same existing student in the same course, had no row
\* for the pair to begin with, met no failure of the storage itself, and the
\* course has a free seat left when both have answered
SamePairRace(r1, r2) ==
    /\ r1 # r2 /\ Finished(r1) /\ Finished(r2)
    /\ \A r \in {r1, r2} :
         /\ ReachedPreconditions(req[r]) \/ req[r].err = "unique_violation"
         /\ req[r].op = "enroll" /\ req[r].err # "storage" /\ KnownStudent(req[r])
    /\ Student(req[r1]) = Student(req[r2]) /\ Course(req[r1]) = Course(req[r2])
    /\ Course(req[r1]) \in DOMAIN courses
    /\ RowsOfPair(pre.enrollments, Student(req[r1]), Course(req[r1])) = {}
    /\ courses[Course(req[r1])].count < courses[Course(req[r1])].capacity

\* C18: of two enroll requests of one pair on a course with free capacity,
\* in whatever order their steps run, one is answered 201, the other 400
\* "Already enrolled in this course", and the counter rises by 1.
C18_LoserGetsAlreadyEnrolled ==
    \A r1, r2 \in Reqs : SamePairRace(r1, r2) =>
        /\ {req[r1].code, req[r2].code} = {201, 400}
        /\ \A r \in {r1, r2} :
             req[r].code = 400 => req[r].message = "Already enrolled in this course"
        /\ courses[Course(req[r1])].count = pre.courses[Course(req[r1])].count + 1

----------------------------------------------------------------------------
(* the initializer: runs and startup *)

\* every table and row of d is in the storage, unchanged
Preserved(d) ==
    /\ d.tables \subseteq boot.tables
    /\ d.students \subseteq students
    /\ d.enrollments \subseteq enrollments
    /\ \A c \in DOMAIN d.courses : c \in DOMAIN courses /\ courses[c] = d.courses[c]
    /\ \A u \in DOMAIN d.users :
         u \in DOMAIN users /\ users[u] = d.users[u] /\ emails[u] = d.emails[u]

\* C12: for the initializers that do not drop tables, at every statement of a
\* run each table and each row (student, course, user, enrollment) that
\* existed when the run was entered is still there unchanged, and when a
\* second run has returned, neither run having failed, the storage is what the
\* first run left.
C12_InitializerIdempotentAndPreserving ==
    boot.module \in {"persist", "auth"} =>
        /\ \A d \in boot.start : Preserved(d)
        /\ (boot.runs >= 2 /\ boot.pc = "up" /\ ~boot.failed) =>
             \A d \in boot.first : DbState = d

\* two runs on a database in use whose seed course CSC-601 was edited: the
\* other seeds were added, the edited row is as it was
C12_Witness ==
    /\ boot.runs = 2 /\ boot.pc = "up" /\ ~boot.failed /\ boot.first # {}
    /\ boot.module = "persist"
    /\ "CSC-705" \in DOMAIN courses
    /\ "CSC-601" \in DOMAIN courses /\ courses["CSC-601"].capacity = 36

\* C19: once a statement of the initializer has failed, the process is not
\* listening and answers no request.
C19_FailedInitializerAbortsStartup ==
    boot.failed =>
        /\ ~boot.listening
        /\ \A s \in boot.served : s.phase # "failed"

\* C20: no process runs initializeDatabase more than once, and a process
\* whose storage is reachable and whose connection test did not fail has run
\* it once when its startup is over.
C20_OneRunPerProcessStart ==
    /\ boot.runs <= 1
    /\ (boot.pc = "up" /\ boot.reachable /\ boot.tested # "failed") => boot.runs = 1

----------------------------------------------------------------------------
(* enroll: end of the transaction and release of the client *)

\* the positions inside try { ... } of the auth enroll: the request holds the
\* client that pool.connect gave it
TryPcs == {"begin", "sel_existing", "insert", "update", "commit", "rollback_dup",
           "rollback_err"}

\* in every state: a client is released at most once and not while the try
\* block runs; a transaction is open only inside the try block, and a request
\* that has answered has none open and no uncommitted write left
TransactionAndClientState ==
    \A r \in Reqs : (variant = "auth" /\ req[r].op = "enroll") =>
        /\ req[r].releases <= 1
        /\ req[r].pc \in TryPcs => req[r].releases = 0
        /\ req[r].began => req[r].pc \in TryPcs
        /\ Finished(r) => ~req[r].began /\ req[r].ins = {} /\ req[r].upd = {}

\* the step ends the transaction of r by COMMIT: all its writes become visible
EndsByCommit(r) ==
    /\ req[r].pc = "commit"
    /\ enrollments' = Committed(req[r]).enrollments
    /\ courses' = Committed(req[r]).courses
    /\ req'[r].rollbacks = req[r].rollbacks

\* the step ends the transaction of r by rollback: none of its writes is visible
EndsByRollback(r) ==
    /\ req'[r].rollbacks = req[r].rollbacks + 1
    /\ UNCHANGED <<enrollments, courses>>

\* in every step: a transaction that ends does so by exactly one of commit
\* and rollback; leaving the try block releases the client, nothing else does
TransactionAndClientStep ==
    \A r \in Reqs : (variant = "auth" /\ req[r].op = "enroll") =>
        /\ (req[r].began /\ ~req'[r].began) => (EndsByCommit(r) /= EndsByRollback(r))
        /\ (req[r].pc \in TryPcs /\ req'[r].pc = "done") => req'[r].releases = 1
        /\ req[r].pc \notin TryPcs => req'[r].releases = req[r].releases

\* C21: every auth enroll transaction that begins ends by exactly one of
\* commit (all writes visible) and rollback (none visible), and the client
\* taken from the pool is released exactly once on every way out of the try
\* block: 201, the duplicate answer, and the failure of any statement, BEGIN,
\* COMMIT and ROLLBACK included.
C21_OneEndOneRelease ==
    []TransactionAndClientState /\ [][TransactionAndClientStep]_vars

\* a request whose BEGIN failed and one whose COMMIT failed have both answered
\* 500, each with its client released once
C21_Witness ==
    \E r1, r2 \in Reqs :
        /\ variant = "auth" /\ Finished(r1) /\ Finished(r2)
        /\ req[r1].err = "storage" /\ req[r1].at = "begin" /\ req[r1].releases = 1
        /\ req[r2].err = "storage" /\ req[r2].at = "commit" /\ req[r2].releases = 1

----------------------------------------------------------------------------
(* course creation by a caller without an admin credential *)

\* C22: whatever register, login and create-course requests a caller makes
\* who holds no credential of an admin identity that existed before, no
\* course row is added.
C22_NoCourseWithoutAdminCredential ==
    DOMAIN courses = DOMAIN pre.courses

====
